---- MODULE Spec2Model ----
(***************************************************************************)
(* Model of the knowledge ingestion and retrieval core of Proposols_MCP:   *)
(*   - the validation-response form handler and the Teams validation       *)
(*     webhook (supabase/functions/validation-response, validation-webhook)*)
(*   - the process-embeddings drain of the embedding queue                 *)
(*   - the search_experience hybrid search function and the review gate    *)
(* Every await of an edge function is one database round trip and so one   *)
(* step of the model: other handlers may run between two steps.            *)
(***************************************************************************)
EXTENDS Integers, Sequences, FiniteSets, TLC

VARIABLES
    validations,  \* validation_requests rows, by id
    expired_due,  \* ids of the requests whose expires_at lies before now()
    experience,   \* experience rows in insertion order; a row's id is its index
    handlers,     \* in-flight invocations of the validation-response POST handler
    posts,        \* number of responses received so far (form and Teams)
    redelivered,  \* the one payload the channel delivers, when it only redelivers
    records,      \* internal_resources rows, by id
    jobs,         \* embedding_queue rows in insertion order; a row's id is its index
    workers,      \* in-flight invocations of the process-embeddings function
    claimed,      \* per job: how many times a drain marked it processing
    failures,     \* per job: how many times a drain marked it failed
    result        \* the rows the last call of search_experience returned

vars == <<validations, expired_due, experience, handlers, posts, redelivered,
          records, jobs, workers, claimed, failures, result>>

\* what the validation handlers never touch
queueVars == <<records, jobs, workers, claimed, failures, result>>

\* what the drain never touches
validationVars == <<validations, expired_due, handlers, posts, redelivered, result>>

----------------------------------------------------------------------------
(* Bounds of the model *)

NumValidations == 1
MaxPosts == 2
NumRecords == 1
MaxJobs == 3
MaxReembeds == 1

VIds == 1..NumValidations
UnknownId == 0
Handlers == {"h1", "h2"}
RecIds == 1..NumRecords
Workers == {"w1", "w2"}

----------------------------------------------------------------------------
(* Text: a string is a sequence of one-character strings *)

Whitespace == {" "}

TxtEmpty == <<>>
TxtBlank == <<" ", " ">>
TxtRate == <<"R", "a", "t", "e", " ", "1", "2", "0", " ", "W", "e", "l", "d", "e", "r", "s">>
TxtHours == <<"H", "o", "u", "r", "s", " ", "c", "a", "p", "p", "e", "d", " ", "w", "e", "e", "k", "l", "y">>
Prefix == <<"V", "a", "l", "i", "d", "a", "t", "i", "o", "n", " ", "c", "o", "r", "r", "e", "c", "t", "i", "o", "n", ":", " ">>

TxtName == <<"J", "o">>
TxtWelder == <<"W", "e", "l", "d", "e", "r">>
TxtCrane == <<"C", "r", "a", "n", "e", " ", "2", "4", "/", "7">>

ContentInputs == {TxtWelder, TxtCrane}

QryRate == <<"W", "e", "l", "d", "e", "r", "s">>
QryWeekly == <<"c", "a", "p", "p", "e", "d", " ", "w", "e", "e", "k", "l", "y">>

QueryTexts == {QryRate, QryWeekly}

CorrectionInputs == {TxtBlank, TxtRate, TxtHours}

\* String.prototype.trim() !== '' : some character is not whitespace
TrimNonEmpty(s) == \E i \in 1..Len(s) : s[i] \notin Whitespace

\* `corrections && corrections.trim() !== ''`
HasCorrections(c) == Len(c) > 0 /\ TrimNonEmpty(c)

ToLowerChar(c) ==
    CASE c = "H" -> "h"
      [] c = "W" -> "w"
      [] c = "R" -> "r"
      [] OTHER -> c

ToLowerCase(s) == [i \in 1..Len(s) |-> ToLowerChar(s[i])]

\* s.split(/\s+/): the maximal runs of non-whitespace, with an empty first
\* (last) piece when s starts (ends) with whitespace, and [""] for "".
RECURSIVE SplitFrom(_, _)
SplitFrom(s, i) ==
    LET seps == {j \in i..Len(s) : s[j] \in Whitespace}
    IN IF seps = {} THEN <<SubSeq(s, i, Len(s))>>
       ELSE LET a == CHOOSE j \in seps : \A k \in seps : j <= k
                b == CHOOSE j \in a..Len(s) :
                        /\ \A k \in a..j : s[k] \in Whitespace
                        /\ j = Len(s) \/ s[j + 1] \notin Whitespace
            IN <<SubSeq(s, i, a - 1)>> \o SplitFrom(s, b + 1)

SplitWs(s) == SplitFrom(s, 1)

\* a filter that keeps the tokens of four characters too
SeqFilterFromFour(ws) == SelectSeq(ws, LAMBDA w : Len(w) >= 4)

KeywordMinLen == 4
KeywordCap == 10

SeqFilterLong(ws) == SelectSeq(ws, LAMBDA w : Len(w) > KeywordMinLen)

Slice10(ws) == IF Len(ws) > KeywordCap THEN SubSeq(ws, 1, KeywordCap) ELSE ws

\* corrections.toLowerCase().split(/\s+/).filter(w => w.length > 4).slice(0, 10)
ExtractKeywords(c) == Slice10(SeqFilterLong(SplitWs(ToLowerCase(c))))

SeqToSet(ws) == {ws[i] : i \in 1..Len(ws)}

Occurrences(ws, w) == Cardinality({i \in 1..Len(ws) : ws[i] = w})

\* the words of a text as the full-text index takes them: lower-cased,
\* split at whitespace (stemming and stop words are left out)
Lexemes(t) == SelectSeq(SplitWs(ToLowerCase(t)), LAMBDA w : w # <<>>)

\* the generated column search_vector: the description with weight A, the
\* keywords with weight B
SearchVector(description, keywords) ==
    [a |-> Lexemes(description), b |-> keywords]

\* `Validation correction: ${corrections}`
Description(c) == Prefix \o c

----------------------------------------------------------------------------
(* Embedding Provider Adapter: text-embedding-3-small as a deterministic   *)
(* function of its input text into a two-dimensional integer vector, or an *)
(* error (the callers draw the error nondeterministically).                *)

Digits == {"0", "1", "2", "3", "4", "5", "6", "7", "8", "9"}
Marks == {"e", "k"}

CountIn(s, chars) == Cardinality({i \in 1..Len(s) : s[i] \in chars})

Embed(t) == <<1 + 3 * CountIn(t, Digits), 1 + CountIn(t, Marks)>>

NoVec == <<0, 0>>

----------------------------------------------------------------------------
(* validation_requests and experience rows *)

StatusEnum == {"pending", "sent", "approved", "rejected", "updated", "expired"}
Terminal == {"approved", "rejected", "updated", "expired"}

\* what a response may carry as approval_status: the three values of the form,
\* a value of the enum that is no response, and a value outside the enum
ApprovalInputs == {"approved", "rejected", "updated", "expired", "maybe"}

ValidationEntityTypes == {"internal_resource", "experience"}
ExperienceEntityTypes ==
    {"internal_resource", "external_resource", "policy", "proposal", "general"}

NoToken == 0
UnknownToken == 99
Token(v) == 100 + v
TokenInputs == {NoToken, UnknownToken} \cup {Token(v) : v \in VIds}

NoExperience == 0
NoPayload == [token |-> NoToken, approval_status |-> "none", corrections |-> TxtEmpty]
HumanConfidence == 95

\* the id of the entity the requests are about
EntityId == 7

NewValidation(et) ==
    [ status |-> "pending",
      message_id |-> NoToken,
      entity_type |-> et,
      entity_id |-> EntityId,
      responded |-> FALSE,
      corrections_provided |-> TxtEmpty,
      experience_created |-> FALSE,
      experience_id |-> NoExperience ]

IdleHandler ==
    [ pc |-> "idle", vid |-> UnknownId, seen_status |-> "none",
      approval_status |-> "none",
      corrections |-> TxtEmpty, exp |-> NoExperience ]

\* a lookup that falls back to some request when the token matches none
GetValidationByTokenOrAny(token) ==
    LET hits == {v \in VIds : validations[v].message_id = token}
    IN IF Cardinality(hits) = 1 THEN CHOOSE v \in hits : TRUE
       ELSE CHOOSE v \in VIds : TRUE

\* getValidationByToken: .eq('message_id', token).single() yields a row only
\* when exactly one row matches
GetValidationByToken(token) ==
    LET hits == {v \in VIds : validations[v].message_id = token}
    IN IF Cardinality(hits) = 1 THEN CHOOSE v \in hits : TRUE ELSE UnknownId

\* the status the form handler writes: the submitted value as it is
FormStatus(approval_status) == approval_status

\* the submitted value written as it is
WebhookStatusAsSubmitted(approval_status) == approval_status

\* the status the Teams webhook writes
WebhookStatus(approval_status) ==
    IF approval_status = "approved" THEN "approved"
    ELSE IF approval_status = "rejected" THEN "rejected"
    ELSE "updated"

\* the update of the response columns; a status outside the enum makes the
\* statement fail, and neither handler looks at the error
ResponseUpdate(row, status, corrections) ==
    IF status \in StatusEnum
    THEN [row EXCEPT !.status = status,
                     !.responded = TRUE,
                     !.corrections_provided = corrections]
    ELSE row

\* the row the form handler inserts; is_validated, supersedes_experience_id
\* take the column defaults
ExperienceRow(v, corrections) ==
    [ description |-> Description(corrections),
      keywords |-> ExtractKeywords(corrections),
      entity_type |-> validations[v].entity_type,
      entity_id |-> validations[v].entity_id,
      source_type |-> "validation_response",
      source_id |-> v,
      confidence_score |-> HumanConfidence,
      embedding |-> Embed(corrections),
      search_vector |-> SearchVector(Description(corrections),
                                     ExtractKeywords(corrections)),
      is_validated |-> FALSE,
      supersedes_experience_id |-> NoExperience ]

\* CHECK (entity_type IN (...)) of table experience
InsertAccepted(row) == row.entity_type \in ExperienceEntityTypes

----------------------------------------------------------------------------
(* internal_resources and embedding_queue rows *)

NewRecord ==
    [ name |-> TxtName, description |-> TxtWelder, rate_notes |-> TxtEmpty,
      embedding |-> NoVec ]

DefaultPriority == 5
BatchLimit == 10

NewJob(table, id) ==
    [ table_name |-> table, record_id |-> id, status |-> "pending",
      retry_count |-> 0, priority |-> DefaultPriority, error_message |-> "" ]

\* an invocation of process-embeddings: its position, the jobs it still has to
\* process, its locals, and its counters processed, failed and jobs.length
IdleWorker ==
    [ pc |-> "idle", batch |-> <<>>, embedding |-> NoVec, error |-> "",
      processed |-> 0, failed |-> 0, total |-> 0 ]

\* parts.filter(Boolean).join(' ')
RECURSIVE JoinNonEmpty(_)
JoinNonEmpty(parts) ==
    IF parts = <<>> THEN <<>>
    ELSE LET rest == JoinNonEmpty(Tail(parts))
         IN IF Head(parts) = <<>> THEN rest
            ELSE IF rest = <<>> THEN Head(parts)
            ELSE Head(parts) \o <<" ">> \o rest

\* array.join(' ')
RECURSIVE JoinWords(_)
JoinWords(ws) ==
    IF ws = <<>> THEN <<>>
    ELSE IF Len(ws) = 1 THEN Head(ws)
    ELSE Head(ws) \o <<" ">> \o JoinWords(Tail(ws))

\* "Get record content based on table name": the row, or none
RecordExists(table, id) ==
    IF table = "internal_resources" THEN id \in RecIds
    ELSE IF table = "experience" THEN id \in 1..Len(experience)
    ELSE FALSE

\* "Combine relevant text fields based on table"
RecordText(table, id) ==
    IF table = "internal_resources"
    THEN JoinNonEmpty(<<records[id].name, records[id].description,
                        records[id].rate_notes>>)
    ELSE IF table = "experience"
    THEN JoinNonEmpty(<<experience[id].description,
                        JoinWords(experience[id].keywords)>>)
    ELSE <<>>

\* the sequences holding each element of set S once
RECURSIVE Orderings(_)
Orderings(S) ==
    IF S = {} THEN {<<>>}
    ELSE UNION {{<<x>> \o o : o \in Orderings(S \ {x})} : x \in S}

Min(a, b) == IF a < b THEN a ELSE b

PendingJobs == {j \in 1..Len(jobs) : jobs[j].status = "pending"}

\* .eq('status', 'pending').order('priority', { ascending: true }).limit(10):
\* the results the query may give; rows of equal priority come in any order
SelectPending ==
    LET k == Min(Cardinality(PendingJobs), BatchLimit)
    IN { SubSeq(o, 1, k) : o \in
           { o \in Orderings(PendingJobs) :
               \A i \in 1..(Len(o) - 1) :
                   jobs[o[i]].priority <= jobs[o[i + 1]].priority } }

\* the job rows as the drain holds them: a copy taken by the select
Snapshot(order) ==
    [i \in 1..Len(order) |-> [id |-> order[i],
                              table_name |-> jobs[order[i]].table_name,
                              record_id |-> jobs[order[i]].record_id,
                              retry_count |-> jobs[order[i]].retry_count]]

----------------------------------------------------------------------------
(* Initial state *)

\* the requests as created, none dispatched; no response yet
ValidationsCreated ==
    /\ validations \in [VIds -> {NewValidation(et) : et \in ValidationEntityTypes}]
    /\ expired_due = {}
    /\ handlers = [h \in Handlers |-> IdleHandler]
    /\ posts = 0

\* the records as inserted: no embedding yet, and the job their insert queued
RecordsInserted ==
    /\ records = [r \in RecIds |-> NewRecord]
    /\ jobs = [r \in RecIds |-> NewJob("internal_resources", r)]
    /\ claimed = [r \in RecIds |-> 0]
    /\ failures = [r \in RecIds |-> 0]
    /\ workers = [w \in Workers |-> IdleWorker]
    /\ result = <<>>

Init ==
    /\ ValidationsCreated
    /\ RecordsInserted
    /\ experience = <<>>
    /\ redelivered = NoPayload

----------------------------------------------------------------------------
(* Dispatch and time *)

\* pending -> sent when the dispatch to the channel succeeds; the message id
\* (the token of the response link) is stored for correlation
Dispatch(v) ==
    /\ validations[v].status = "pending"
    /\ validations' = [validations EXCEPT ![v].status = "sent",
                                          ![v].message_id = Token(v)]
    /\ UNCHANGED <<expired_due, experience, handlers, posts, redelivered, queueVars>>

\* now() moves past expires_at of request v
TimePasses(v) ==
    /\ v \notin expired_due
    /\ expired_due' = expired_due \cup {v}
    /\ UNCHANGED <<validations, experience, handlers, posts, redelivered, queueVars>>

\* the background sweep: a request without a response whose expiry has passed
ExpirySweep(v) ==
    /\ v \in expired_due
    /\ validations[v].status \in {"pending", "sent"}
    /\ validations' = [validations EXCEPT ![v].status = "expired"]
    /\ UNCHANGED <<expired_due, experience, handlers, posts, redelivered, queueVars>>

----------------------------------------------------------------------------
(* validation-response: the POST handler, one action per database round trip *)

\* the status of the early response of the POST handler: 400 'Token
\* required', 404 'Invalid or expired validation link', 0 when it goes on
FormPostReject(token) ==
    IF token = NoToken THEN 400
    ELSE IF GetValidationByToken(token) = UnknownId THEN 404
    ELSE 0

\* read the form, look the request up by its token
FormPost(h, token, approval_status, corrections) ==
    /\ handlers[h].pc = "idle"
    /\ posts < MaxPosts
    /\ posts' = posts + 1
    /\ LET v == GetValidationByToken(token)
       IN handlers' = [handlers EXCEPT ![h] =
            IF FormPostReject(token) # 0
            THEN IdleHandler   \* 400 Token required, 404 Invalid link
            ELSE [ pc |-> "update", vid |-> v,
                   seen_status |-> validations[v].status,
                   approval_status |-> approval_status,
                   corrections |-> corrections,
                   exp |-> NoExperience ]]
    /\ UNCHANGED <<validations, expired_due, experience, redelivered, queueVars>>

\* "Update validation"
FormUpdate(h) ==
    LET me == handlers[h]
        status == FormStatus(me.approval_status)
    IN /\ me.pc = "update"
       /\ validations' = [validations EXCEPT ![me.vid] =
            ResponseUpdate(@, status, me.corrections)]
       /\ handlers' = [handlers EXCEPT ![h] =
            IF HasCorrections(me.corrections)
            THEN [me EXCEPT !.pc = "create", !.seen_status = "none"]
            ELSE IdleHandler]
       /\ UNCHANGED <<expired_due, experience, posts, redelivered, queueVars>>

\* "Create experience if corrections provided": the embedding call, then the
\* insert; without an embedding, or when the insert yields no row, the handler
\* goes on to the success page
FormCreateExperience(h, embedding_ok) ==
    LET me == handlers[h]
        row == ExperienceRow(me.vid, me.corrections)
    IN /\ me.pc = "create"
       /\ IF embedding_ok /\ InsertAccepted(row)
          THEN /\ experience' = Append(experience, row)
               /\ handlers' = [handlers EXCEPT ![h] =
                    [me EXCEPT !.pc = "link", !.exp = Len(experience) + 1,
                               !.approval_status = "none",
                               !.corrections = TxtEmpty]]
          ELSE /\ experience' = experience
               /\ handlers' = [handlers EXCEPT ![h] =
                    IdleHandler]
       /\ UNCHANGED <<validations, expired_due, posts, redelivered, queueVars>>

\* a link that writes experience_id and leaves experience_created as it is
FormLinkIdOnly(h) ==
    LET me == handlers[h]
    IN /\ me.pc = "link"
       /\ validations' = [validations EXCEPT ![me.vid].experience_id = me.exp]
       /\ handlers' = [handlers EXCEPT ![h] = IdleHandler]
       /\ UNCHANGED <<expired_due, experience, posts, redelivered, queueVars>>

\* "Link experience to validation"
FormLink(h) ==
    LET me == handlers[h]
    IN /\ me.pc = "link"
       /\ validations' = [validations EXCEPT
            ![me.vid].experience_created = TRUE,
            ![me.vid].experience_id = me.exp]
       /\ handlers' = [handlers EXCEPT ![h] = IdleHandler]
       /\ UNCHANGED <<expired_due, experience, posts, redelivered, queueVars>>

----------------------------------------------------------------------------
(* validation-webhook: the Teams submit_validation handler, one statement *)

\* validateTeamsWebhook: reads the authorization header and the secret, and
\* returns true
ValidateTeamsWebhook(signature_ok) == TRUE

\* the status of the error response of the webhook: 401 'Unauthorized',
\* 404 'Validation request not found' when the update returns no row, 0 when
\* the update returned the row
TeamsWebhookReject(signature_ok, vid) ==
    IF ~ValidateTeamsWebhook(signature_ok) THEN 401
    ELSE IF vid \notin VIds THEN 404
    ELSE 0

TeamsWebhook(signature_ok, vid, approval_status, corrections) ==
    /\ posts < MaxPosts
    /\ posts' = posts + 1
    /\ IF TeamsWebhookReject(signature_ok, vid) = 0
       THEN validations' = [validations EXCEPT ![vid] =
                 ResponseUpdate(@, WebhookStatus(approval_status), corrections)]
       ELSE validations' = validations   \* 401, or 404 with no row updated
    /\ UNCHANGED <<expired_due, experience, handlers, redelivered, queueVars>>

----------------------------------------------------------------------------
(* Review gate *)

\* UPDATE experience SET is_validated = true WHERE id = e
ReviewApprove(e) ==
    /\ e \in 1..Len(experience)
    /\ ~experience[e].is_validated
    /\ experience' = [experience EXCEPT ![e].is_validated = TRUE]
    /\ UNCHANGED <<validations, expired_due, handlers, posts, redelivered, queueVars>>

----------------------------------------------------------------------------
(* Content mutation and the trigger that queues the embedding job *)

\* UPDATE ... SET description = t, with the AFTER UPDATE trigger
\* queue_embedding_job in the same transaction
UpdateContent(r, t) ==
    /\ Len(jobs) < MaxJobs
    /\ records' = [records EXCEPT ![r].description = t]
    /\ jobs' = Append(jobs, NewJob("internal_resources", r))
    /\ claimed' = Append(claimed, 0)
    /\ failures' = Append(failures, 0)
    /\ UNCHANGED <<workers, experience, validationVars>>

----------------------------------------------------------------------------
(* process-embeddings: one invocation of the drain, one action per await *)

CurrentJob(w) == Head(workers[w].batch)

\* "Get pending embedding jobs"; with none, the function answers at once
DrainSelect(w) ==
    /\ workers[w].pc = "idle"
    /\ \E batch \in SelectPending :
         workers' = [workers EXCEPT ![w] =
            IF batch = <<>> THEN IdleWorker
            ELSE [IdleWorker EXCEPT !.pc = "mark", !.batch = Snapshot(batch),
                                    !.total = Len(batch)]]
    /\ UNCHANGED <<records, jobs, claimed, failures, experience, validationVars>>

\* the rows the statement .update({status: 'processing'}).eq('id', job.id)
\* changes: the job's row, whatever its status is by now
ClaimMatches(id) == TRUE

\* "Mark as processing"
MarkProcessing(w) ==
    LET job == CurrentJob(w)
    IN /\ workers[w].pc = "mark"
       /\ IF ClaimMatches(job.id)
          THEN /\ jobs' = [jobs EXCEPT ![job.id].status = "processing"]
               /\ claimed' = [claimed EXCEPT ![job.id] = @ + 1]
          ELSE UNCHANGED <<jobs, claimed>>
       /\ workers' = [workers EXCEPT ![w].pc = "read"]
       /\ UNCHANGED <<records, failures, experience, validationVars>>

\* a text that differs when the job was marked processing more than once
JobTextByAttempt(job) ==
    RecordText(job.table_name, job.record_id)
        \o (IF claimed[job.id] > 1 THEN <<" ", "e">> ELSE <<>>)

\* the text the drain embeds for a job
JobText(job) == RecordText(job.table_name, job.record_id)

\* "Get record content", "Combine relevant text fields", "Generate embedding":
\* a missing record, an empty text and a provider error each throw
ReadAndEmbed(w, provider_ok) ==
    LET job == CurrentJob(w)
        found == RecordExists(job.table_name, job.record_id)
        text == IF found THEN JobText(job) ELSE <<>>
        error == IF ~found THEN "Record not found"
                 ELSE IF text = <<>> THEN "No text content found for embedding"
                 ELSE IF ~provider_ok THEN "OpenAI API error"
                 ELSE ""
    IN /\ workers[w].pc = "read"
       /\ workers' = [workers EXCEPT ![w] =
            IF error = ""
            THEN [@ EXCEPT !.pc = "write", !.embedding = Embed(text)]
            ELSE [@ EXCEPT !.pc = "fail", !.error = error]]
       /\ UNCHANGED <<records, jobs, claimed, failures, experience, validationVars>>

\* a write of the embedding that also sets the review flag of an entry
WriteEmbeddingAndApprove(w) ==
    LET job == CurrentJob(w)
    IN /\ workers[w].pc = "write"
       /\ IF job.table_name = "experience"
          THEN /\ experience' = [experience EXCEPT
                                    ![job.record_id].embedding = workers[w].embedding,
                                    ![job.record_id].is_validated = TRUE]
               /\ records' = records
          ELSE /\ records' = [records EXCEPT ![job.record_id].embedding =
                                    workers[w].embedding]
               /\ experience' = experience
       /\ workers' = [workers EXCEPT ![w].pc = "complete"]
       /\ UNCHANGED <<jobs, claimed, failures, validationVars>>

\* "Update record with embedding"
WriteEmbedding(w) ==
    LET job == CurrentJob(w)
    IN /\ workers[w].pc = "write"
       /\ IF job.table_name = "experience"
          THEN /\ experience' = [experience EXCEPT ![job.record_id].embedding =
                                    workers[w].embedding]
               /\ records' = records
          ELSE /\ records' = [records EXCEPT ![job.record_id].embedding =
                                    workers[w].embedding]
               /\ experience' = experience
       /\ workers' = [workers EXCEPT ![w].pc = "complete"]
       /\ UNCHANGED <<jobs, claimed, failures, validationVars>>

\* processed++ or failed++
Tally(w, done) ==
    [ processed |-> workers[w].processed + (IF done = "processed" THEN 1 ELSE 0),
      failed |-> workers[w].failed + (IF done = "failed" THEN 1 ELSE 0),
      total |-> workers[w].total ]

\* the body of the response the invocation gives after its last job
DrainResponse(w, done) == Tally(w, done)

\* a loop that a failed job ends: the invocation answers at once
NextJobUnlessFailed(w, done) ==
    IF Len(workers[w].batch) = 1 \/ done = "failed" THEN IdleWorker
    ELSE [IdleWorker EXCEPT !.pc = "mark", !.batch = Tail(workers[w].batch),
                            !.processed = Tally(w, done).processed,
                            !.failed = Tally(w, done).failed,
                            !.total = Tally(w, done).total]

\* the worker's state once it is done with the job at the head of its batch:
\* the counter is stepped and the loop goes on, or the function returns
NextJob(w, done) ==
    IF Len(workers[w].batch) = 1 THEN IdleWorker
    ELSE [IdleWorker EXCEPT !.pc = "mark", !.batch = Tail(workers[w].batch),
                            !.processed = Tally(w, done).processed,
                            !.failed = Tally(w, done).failed,
                            !.total = Tally(w, done).total]

\* "Mark job as completed"
MarkCompleted(w) ==
    LET job == CurrentJob(w)
    IN /\ workers[w].pc = "complete"
       /\ jobs' = [jobs EXCEPT ![job.id].status = "completed"]
       /\ workers' = [workers EXCEPT ![w] = NextJob(w, "processed")]
       /\ UNCHANGED <<records, claimed, failures, experience, validationVars>>

\* a catch block that also takes the vector off the record of the job
MarkFailedAndClear(w) ==
    LET job == CurrentJob(w)
    IN /\ workers[w].pc = "fail"
       /\ jobs' = [jobs EXCEPT ![job.id].status = "failed",
                               ![job.id].error_message = workers[w].error,
                               ![job.id].retry_count = job.retry_count + 1]
       /\ failures' = [failures EXCEPT ![job.id] = @ + 1]
       /\ workers' = [workers EXCEPT ![w] = NextJob(w, "failed")]
       /\ records' = IF job.table_name = "internal_resources"
                        /\ job.record_id \in RecIds
                     THEN [records EXCEPT ![job.record_id].embedding = NoVec]
                     ELSE records
       /\ UNCHANGED <<claimed, experience, validationVars>>

\* "Mark job as failed": retry_count from the copy the select took
MarkFailed(w) ==
    LET job == CurrentJob(w)
    IN /\ workers[w].pc = "fail"
       /\ jobs' = [jobs EXCEPT ![job.id].status = "failed",
                               ![job.id].error_message = workers[w].error,
                               ![job.id].retry_count = job.retry_count + 1]
       /\ failures' = [failures EXCEPT ![job.id] = @ + 1]
       /\ workers' = [workers EXCEPT ![w] = NextJob(w, "failed")]
       /\ UNCHANGED <<records, claimed, experience, validationVars>>

NextQueue ==
    \/ \E r \in RecIds, t \in ContentInputs : UpdateContent(r, t)
    \/ \E w \in Workers : DrainSelect(w)
    \/ \E w \in Workers : MarkProcessing(w)
    \/ \E w \in Workers, ok \in BOOLEAN : ReadAndEmbed(w, ok)
    \/ \E w \in Workers : WriteEmbedding(w)
    \/ \E w \in Workers : MarkCompleted(w)
    \/ \E w \in Workers : MarkFailed(w)

InitQueue ==
    /\ validations = [v \in VIds |-> NewValidation("internal_resource")]
    /\ expired_due = {}
    /\ handlers = [h \in Handlers |-> IdleHandler]
    /\ posts = 0
    /\ RecordsInserted
    /\ experience = <<>>
    /\ redelivered = NoPayload

SpecQueue == InitQueue /\ [][NextQueue]_vars

----------------------------------------------------------------------------
(* The drain under more overlapping invocations than the retry maximum *)

\* the configured maximum of attempts per job
MaxAttempts == 3

\* invocations of process-embeddings that overlap: one more than MaxAttempts
DrainPool == {"w1", "w2", "w3", "w4"}

InitPool ==
    /\ validations = [v \in VIds |-> NewValidation("internal_resource")]
    /\ expired_due = {}
    /\ handlers = [h \in Handlers |-> IdleHandler]
    /\ posts = 0
    /\ records = [r \in RecIds |-> NewRecord]
    /\ jobs = [r \in RecIds |-> NewJob("internal_resources", r)]
    /\ claimed = [r \in RecIds |-> 0]
    /\ failures = [r \in RecIds |-> 0]
    /\ workers = [w \in DrainPool |-> IdleWorker]
    /\ result = <<>>
    /\ experience = <<>>
    /\ redelivered = NoPayload

NextPool ==
    \/ \E w \in DrainPool : DrainSelect(w)
    \/ \E w \in DrainPool : MarkProcessing(w)
    \/ \E w \in DrainPool, ok \in BOOLEAN : ReadAndEmbed(w, ok)
    \/ \E w \in DrainPool : WriteEmbedding(w)
    \/ \E w \in DrainPool : MarkCompleted(w)
    \/ \E w \in DrainPool : MarkFailed(w)

SpecPool == InitPool /\ [][NextPool]_vars

----------------------------------------------------------------------------
(* The drain with invocations that are cut short *)

\* an invocation is interrupted (crash, time limit of the edge function)
\* between two awaits: it is gone, what it wrote stays
Crash(w) ==
    /\ workers[w].pc # "idle"
    /\ workers' = [workers EXCEPT ![w] = IdleWorker]
    /\ UNCHANGED <<records, jobs, claimed, failures, experience, validationVars>>

NextCrash ==
    \/ \E w \in DrainPool : DrainSelect(w)
    \/ \E w \in DrainPool : MarkProcessing(w)
    \/ \E w \in DrainPool, ok \in BOOLEAN : ReadAndEmbed(w, ok)
    \/ \E w \in DrainPool : WriteEmbedding(w)
    \/ \E w \in DrainPool : MarkCompleted(w)
    \/ \E w \in DrainPool : MarkFailed(w)
    \/ \E w \in DrainPool : Crash(w)

SpecCrash == InitPool /\ [][NextCrash]_vars

----------------------------------------------------------------------------
(* search_experience: hybrid search with reciprocal rank fusion *)

NoFilter == "null"
EntityFilters == {NoFilter, "policy"}
QueryVectors == {<<3, 1>>, <<1, 1>>}
DefaultThreshold == 60
DefaultMatchCount == 20
Thresholds == {DefaultThreshold}
MatchCounts == {1, DefaultMatchCount}
RRF_K == 60

Dot(a, b) == a[1] * b[1] + a[2] * b[2]

\* 1 - (a <=> q) > threshold / 100, for vectors without negative components:
\* the cosine compared through its square
SimilarityAbove(a, q, threshold) ==
    /\ a # NoVec
    /\ q # NoVec
    /\ 10000 * Dot(a, q) * Dot(a, q) > threshold * threshold * Dot(a, a) * Dot(q, q)

\* a is at most as far from q as b is: (a <=> q) <= (b <=> q)
NotFarther(a, b, q) ==
    Dot(a, q) * Dot(a, q) * Dot(b, b) >= Dot(b, q) * Dot(b, q) * Dot(a, a)

\* e.search_vector @@ websearch_to_tsquery('english', query_text): every word
\* of the query is in the description or in the keywords
FulltextMatch(row, query_text) ==
    LET q == Lexemes(query_text)
    IN /\ q # <<>>
       /\ \A i \in 1..Len(q) :
             q[i] \in SeqToSet(row.search_vector.a) \cup SeqToSet(row.search_vector.b)

\* ts_rank over the weighted vector: weight A (10) for the description,
\* weight B (4) for the keywords, per occurrence of a query word
TsRank(row, query_text) ==
    LET q == Lexemes(query_text)
        score[i \in 0..Len(q)] ==
            IF i = 0 THEN 0
            ELSE score[i - 1] + 10 * Occurrences(row.search_vector.a, q[i])
                              + 4 * Occurrences(row.search_vector.b, q[i])
    IN score[Len(q)]

\* the type filter alone, without the review gate
SearchableUngated(row, p_entity_type) ==
    p_entity_type = NoFilter \/ row.entity_type = p_entity_type

\* the WHERE clause both branches share: the review gate and the type filter
Searchable(row, p_entity_type) ==
    /\ row.is_validated
    /\ (p_entity_type = NoFilter \/ row.entity_type = p_entity_type)

SemanticHits(query_embedding, threshold, p_entity_type) ==
    {e \in 1..Len(experience) :
        /\ Searchable(experience[e], p_entity_type)
        /\ SimilarityAbove(experience[e].embedding, query_embedding, threshold)}

FulltextHits(query_text, p_entity_type) ==
    {e \in 1..Len(experience) :
        /\ Searchable(experience[e], p_entity_type)
        /\ FulltextMatch(experience[e], query_text)}

\* ROW_NUMBER() OVER (ORDER BY e.embedding <=> query_embedding): the
\* numberings the window may give, rows at equal distance in any order
SemanticRankings(hits, query_embedding) ==
    {o \in Orderings(hits) :
        \A i \in 1..(Len(o) - 1) :
            NotFarther(experience[o[i]].embedding, experience[o[i + 1]].embedding,
                       query_embedding)}

\* ROW_NUMBER() OVER (ORDER BY ts_rank(...) DESC)
FulltextRankings(hits, query_text) ==
    {o \in Orderings(hits) :
        \A i \in 1..(Len(o) - 1) :
            TsRank(experience[o[i]], query_text)
               >= TsRank(experience[o[i + 1]], query_text)}

\* a row number that also counts the unreviewed entries stored before e, as
\* a numbering of the whole table would
RankInWholeTable(o, e) ==
    IF \E i \in 1..Len(o) : o[i] = e
    THEN (CHOOSE i \in 1..Len(o) : o[i] = e)
            + Cardinality({x \in 1..Len(experience) :
                             x < e /\ ~experience[x].is_validated})
    ELSE 0

\* the row number of e in a ranking, 0 when the branch has no row for e
RankIn(o, e) ==
    IF \E i \in 1..Len(o) : o[i] = e
    THEN CHOOSE i \in 1..Len(o) : o[i] = e
    ELSE 0

\* the common denominator of the fractions 1 / (60 + rank)
RECURSIVE ScoreUnit(_)
ScoreUnit(n) == IF n = 0 THEN 1 ELSE (RRF_K + n) * ScoreUnit(n - 1)

\* a branch that has no row for the entry counted like its first place
ReciprocalAbsentAsFirst(rank, n) ==
    ScoreUnit(n) \div (RRF_K + (IF rank = 0 THEN 1 ELSE rank))

\* COALESCE(1.0 / (60 + rank), 0.0), in units of 1 / ScoreUnit(n)
Reciprocal(rank, n) == IF rank = 0 THEN 0 ELSE ScoreUnit(n) \div (RRF_K + rank)

\* the ids of an inner join of the two branches
JoinedIdsInner(so, fo) == SeqToSet(so) \cap SeqToSet(fo)

\* the ids of semantic_search ss FULL OUTER JOIN fulltext_search fts
\* ON ss.id = fts.id: a row for every id of either branch
JoinedIds(so, fo) == SeqToSet(so) \cup SeqToSet(fo)

\* the joined rows in the order of their fused rank, without the LIMIT
FusedResultsNoLimit(so, fo, match_count) ==
    LET ids == JoinedIds(so, fo)
        fused(e) == Reciprocal(RankIn(so, e), MaxPosts)
                       + Reciprocal(RankIn(fo, e), MaxPosts)
    IN { [i \in 1..Len(o) |->
            [id |-> o[i], rank |-> fused(o[i]),
             semantic_rank |-> RankIn(so, o[i]),
             fulltext_rank |-> RankIn(fo, o[i])]] :
           o \in {o \in Orderings(ids) :
                    \A i \in 1..(Len(o) - 1) : fused(o[i]) >= fused(o[i + 1])} }

\* the joined rows of one pair of rankings with their fused rank (and the row
\* numbers ss.rank, fts.rank it is computed from), in the orders ORDER BY rank
\* DESC may give, cut by LIMIT match_count
FusedResults(so, fo, match_count) ==
    LET ids == JoinedIds(so, fo)
        n == MaxPosts   \* no more entries than responses
        fused(e) == Reciprocal(RankIn(so, e), n) + Reciprocal(RankIn(fo, e), n)
    IN { [i \in 1..Min(Len(o), match_count) |->
            [id |-> o[i], rank |-> fused(o[i]),
             semantic_rank |-> RankIn(so, o[i]),
             fulltext_rank |-> RankIn(fo, o[i])]] :
           o \in {o \in Orderings(ids) :
                    \A i \in 1..(Len(o) - 1) : fused(o[i]) >= fused(o[i + 1])} }

\* the results search_experience may return
SearchExperience(query_text, query_embedding, match_threshold, match_count, p_entity_type) ==
    UNION { FusedResults(so, fo, match_count) :
              so \in SemanticRankings(
                       SemanticHits(query_embedding, match_threshold, p_entity_type),
                       query_embedding),
              fo \in FulltextRankings(FulltextHits(query_text, p_entity_type),
                                      query_text) }

Search(query_text, query_embedding, match_threshold, match_count, p_entity_type) ==
    /\ result' \in SearchExperience(query_text, query_embedding, match_threshold,
                                    match_count, p_entity_type)
    /\ UNCHANGED <<validations, expired_due, experience, handlers, posts,
                   redelivered, records, jobs, workers, claimed, failures>>

\* a request to embed an experience entry anew: a row of the queue for it
QueueExperience(e) ==
    /\ e \in 1..Len(experience)
    /\ Cardinality({j \in 1..Len(jobs) : jobs[j].table_name = "experience"})
          < MaxReembeds
    /\ jobs' = Append(jobs, NewJob("experience", e))
    /\ claimed' = Append(claimed, 0)
    /\ failures' = Append(failures, 0)
    /\ UNCHANGED <<records, workers, experience, validationVars>>

\* the requests dispatched, the records embedded by a first drain
InitSearch ==
    /\ validations = [v \in VIds |->
         [NewValidation("internal_resource") EXCEPT !.status = "sent",
                                                    !.message_id = Token(v)]]
    /\ expired_due = {}
    /\ handlers = [h \in Handlers |-> IdleHandler]
    /\ posts = 0
    /\ redelivered = NoPayload
    /\ records = [r \in RecIds |->
         [NewRecord EXCEPT !.embedding =
            Embed(JoinNonEmpty(<<TxtName, TxtWelder, TxtEmpty>>))]]
    /\ jobs = [r \in RecIds |->
         [NewJob("internal_resources", r) EXCEPT !.status = "completed"]]
    /\ claimed = [r \in RecIds |-> 1]
    /\ failures = [r \in RecIds |-> 0]
    /\ workers = [w \in Workers |-> IdleWorker]
    /\ experience = <<>>
    /\ result = <<>>

\* correction responses by the form and by Teams, reviews, drains and
\* searches, one handler and one drain at a time
NextSearch ==
    \/ \E v \in VIds, c \in {TxtRate, TxtHours} :
          FormPost("h1", Token(v), "updated", c)
    \/ FormUpdate("h1")
    \/ \E ok \in BOOLEAN : FormCreateExperience("h1", ok)
    \/ FormLink("h1")
    \/ \E ok \in BOOLEAN, v \in VIds : TeamsWebhook(ok, v, "updated", TxtRate)
    \/ \E e \in 1..MaxPosts : ReviewApprove(e)
    \/ \E e \in 1..MaxPosts : QueueExperience(e)
    \/ DrainSelect("w1")
    \/ MarkProcessing("w1")
    \/ \E ok \in BOOLEAN : ReadAndEmbed("w1", ok)
    \/ WriteEmbedding("w1")
    \/ MarkCompleted("w1")
    \/ MarkFailed("w1")
    \/ \E qt \in QueryTexts, qv \in QueryVectors, th \in Thresholds,
          n \in MatchCounts, p \in EntityFilters : Search(qt, qv, th, n, p)

SpecSearch == InitSearch /\ [][NextSearch]_vars

----------------------------------------------------------------------------
(* The validation workflow *)

NextValidation ==
    \/ \E v \in VIds : Dispatch(v)
    \/ \E v \in VIds : TimePasses(v)
    \/ \E v \in VIds : ExpirySweep(v)
    \/ \E h \in Handlers, t \in TokenInputs, a \in ApprovalInputs,
          c \in CorrectionInputs : FormPost(h, t, a, c)
    \/ \E h \in Handlers : FormUpdate(h)
    \/ \E h \in Handlers, ok \in BOOLEAN : FormCreateExperience(h, ok)
    \/ \E h \in Handlers : FormLink(h)
    \/ \E v \in VIds \cup {UnknownId}, a \in ApprovalInputs,
          c \in CorrectionInputs, ok \in BOOLEAN : TeamsWebhook(ok, v, a, c)
    \/ \E e \in 1..MaxPosts : ReviewApprove(e)

SpecValidation == Init /\ [][NextValidation]_vars

----------------------------------------------------------------------------
(* Duplicate delivery: the channel delivers one and the same response      *)
(* payload (token, approval_status, corrections), any number of times      *)

InitRedelivery ==
    /\ ValidationsCreated
    /\ RecordsInserted
    /\ experience = <<>>
    /\ redelivered \in [token : {Token(v) : v \in VIds},
                        approval_status : ApprovalInputs,
                        corrections : CorrectionInputs]

NextRedelivery ==
    \/ \E v \in VIds : Dispatch(v)
    \/ \E v \in VIds : TimePasses(v)
    \/ \E h \in Handlers : FormPost(h, redelivered.token,
                                    redelivered.approval_status,
                                    redelivered.corrections)
    \/ \E h \in Handlers : FormUpdate(h)
    \/ \E h \in Handlers, ok \in BOOLEAN : FormCreateExperience(h, ok)
    \/ \E h \in Handlers : FormLink(h)
    \/ \E e \in 1..MaxPosts : ReviewApprove(e)

SpecRedelivery == InitRedelivery /\ [][NextRedelivery]_vars

----------------------------------------------------------------------------
(* Recording correction responses one after the other *)

\* the requests dispatched, of every entity type validation_requests allows
InitRecord ==
    /\ validations \in [VIds -> {[NewValidation(et) EXCEPT !.status = "sent",
                                                           !.message_id = Token(v)] :
                                    et \in ValidationEntityTypes, v \in VIds}]
    /\ \A v \in VIds : validations[v].message_id = Token(v)
    /\ expired_due = {}
    /\ handlers = [h \in Handlers |-> IdleHandler]
    /\ posts = 0
    /\ redelivered = NoPayload
    /\ RecordsInserted
    /\ experience = <<>>

\* 'updated' responses with a correction text by the form, handled one at a
\* time, while time goes by
NextRecord ==
    \/ \E v \in VIds, c \in {TxtRate, TxtHours} :
          FormPost("h1", Token(v), "updated", c)
    \/ FormUpdate("h1")
    \/ \E ok \in BOOLEAN : FormCreateExperience("h1", ok)
    \/ FormLink("h1")
    \/ \E v \in VIds : TimePasses(v)

SpecRecord == InitRecord /\ [][NextRecord]_vars

----------------------------------------------------------------------------
(* Properties of the validation workflow *)

ExperienceIds == 1..Len(experience)

DerivedFrom(v) == {e \in ExperienceIds : experience[e].source_id = v}

Superseded(e) ==
    \E e2 \in ExperienceIds : experience[e2].supersedes_experience_id = e

\* C5: duplicate delivery of one and the same response payload leaves exactly
\* one derived experience entry for the request: the second delivery adds none.
\* (Stated of the runs in which the channel delivers a single payload.)
DuplicateDeliveryOneEntry ==
    \A v \in VIds : Cardinality(DerivedFrom(v)) <= 1

\* C6: a request has at most one derived experience entry that is not
\* superseded; a second correction supersedes the first instead of standing
\* beside it.
OneLiveEntryPerRequest ==
    \A v \in VIds :
        Cardinality({e \in DerivedFrom(v) : ~Superseded(e)}) <= 1

CorrectionRecorded(v) ==
    /\ validations[v].responded
    /\ HasCorrections(validations[v].corrections_provided)

LinkedEntry(v) ==
    /\ validations[v].experience_id \in ExperienceIds
    /\ experience[validations[v].experience_id].source_id = v

\* C7: recording a correction is both-or-neither: a request carries a
\* correction response exactly when it links to its derived entry, and every
\* entry derived from a request is the one the request links to.
CorrectionAtomic ==
    \A v \in VIds :
        /\ CorrectionRecorded(v) <=> LinkedEntry(v)
        /\ \A e \in DerivedFrom(v) : validations[v].experience_id = e

\* every handler at work on request v looked it up when it was already expired
OnlyLateResponses(v) ==
    \A h \in Handlers :
        handlers[h].vid = v
           => handlers[h].pc = "update" /\ handlers[h].seen_status = "expired"

DerivedFromNext(v) ==
    {e \in 1..Len(experience') : experience'[e].source_id = v}

\* C8: once a request is expired, a response that arrives afterwards (by the
\* form or by Teams) is rejected as stale: the request's status and response
\* data and the experience entries derived from it stay as they are.
ExpiredRejectsLateResponse ==
    [][\A v \in VIds :
         (validations[v].status = "expired" /\ OnlyLateResponses(v))
            => /\ validations'[v] = validations[v]
               /\ DerivedFromNext(v) = DerivedFrom(v)]_vars

TransitionGraph ==
    { <<"pending", "sent">>, <<"sent", "approved">>, <<"sent", "rejected">>,
      <<"sent", "updated">>, <<"pending", "expired">>, <<"sent", "expired">> }

\* C9: every change of a request's status is an edge of the transition graph
\* pending->sent, sent->{approved, rejected, updated}, {pending, sent}->expired;
\* so the four final statuses are never left and no response takes a request
\* out of pending.
StatusFollowsGraph ==
    [][\A v \in VIds :
         validations'[v].status # validations[v].status
            => <<validations[v].status, validations'[v].status>>
                  \in TransitionGraph]_vars

\* C10: transitions of one request are serialized: a response handler that
\* looked the request up while it was open, and finds it in a final status by
\* the time it writes, writes nothing.
RacingTransitionIsNoOp ==
    [][\A h \in Handlers :
         LET me == handlers[h]
         IN ( /\ me.pc = "update"
              /\ me.seen_status \notin Terminal
              /\ validations[me.vid].status \in Terminal
              /\ handlers'[h] # me )
            => validations'[me.vid] = validations[me.vid]]_vars

----------------------------------------------------------------------------
(* Properties of the embedding queue *)

JobIds == 1..Len(jobs)

\* C2: under concurrent drains no job is claimed (marked processing, and so
\* sent to the embedding provider) by more than one drain.
JobClaimedAtMostOnce ==
    \A j \in JobIds : claimed[j] <= 1

StoredEmbedding(table, id) ==
    IF table = "experience" THEN experience[id].embedding
    ELSE records[id].embedding

\* C3: at the moment the drain marks a job completed, the vector stored in the
\* job's record is the embedding of the text the record holds at that moment.
CompletedVectorIsCurrent ==
    [][\A j \in JobIds :
         (jobs[j].status # "completed" /\ jobs'[j].status = "completed")
            => StoredEmbedding(jobs[j].table_name, jobs[j].record_id)'
                 = Embed(RecordText(jobs[j].table_name, jobs[j].record_id))']_vars

JobsOf(r) ==
    {j \in JobIds : jobs[j].table_name = "internal_resources"
                    /\ jobs[j].record_id = r}

LastJobOf(r) == CHOOSE j \in JobsOf(r) : \A k \in JobsOf(r) : k <= j

Settled(r) ==
    /\ JobsOf(r) # {}
    /\ \A j \in JobsOf(r) : jobs[j].status \notin {"pending", "processing"}
    /\ jobs[LastJobOf(r)].status = "completed"

\* C4: exactly-once effect: once no job of a record is pending or processing
\* and its last job is completed, the record's stored vector is the embedding
\* of the record's most recent text.
SettledEmbeddingIsLatest ==
    \A r \in RecIds :
        Settled(r) =>
            records[r].embedding = Embed(RecordText("internal_resources", r))

----------------------------------------------------------------------------
(* Properties of search *)

\* C1: search_experience never returns an experience entry whose
\* is_validated is false, whatever the query, vector, threshold, limit and
\* type filter, after any corrections, drains and reviews.
SearchReturnsOnlyValidated ==
    \A i \in 1..Len(result) : experience[result[i].id].is_validated

\* a search returned an entry while an unvalidated entry with the same
\* description, keywords, type and vector was in the store
ValidatedReturnedTwinHeldBack ==
    \E i \in 1..Len(result), e \in 1..Len(experience) :
        /\ ~experience[e].is_validated
        /\ experience[e].description = experience[result[i].id].description
        /\ experience[e].keywords = experience[result[i].id].keywords
        /\ experience[e].entity_type = experience[result[i].id].entity_type
        /\ experience[e].embedding = experience[result[i].id].embedding

----------------------------------------------------------------------------
(* Properties of recording a correction *)

\* t occurs in s as a contiguous piece
Contains(s, t) ==
    \E i \in 0..(Len(s) - Len(t)) : SubSeq(s, i + 1, i + Len(t)) = t

\* the request is updated and links to an unreviewed entry that is derived
\* from the request's correction
LinkedToNewEntry(v) ==
    LET e == validations[v].experience_id
    IN /\ validations[v].status = "updated"
       /\ e \in 1..Len(experience)
       /\ ~experience[e].is_validated
       /\ Contains(experience[e].description, validations[v].corrections_provided)
       /\ experience[e].source_type = "validation_response"
       /\ experience[e].source_id = v

\* C11: once the form handler is through with the 'updated' responses with
\* corrections it received, one after the other, for sent requests of any
\* entity type, there is one experience entry per response, and the request is
\* updated and links to an entry with is_validated false, whose description
\* contains the correction and whose provenance is the request.
UpdatedResponseRecorded ==
    (handlers["h1"].pc = "idle" /\ posts > 0)
        => /\ Len(experience) = posts
           /\ \A v \in VIds : validations[v].responded => LinkedToNewEntry(v)

----------------------------------------------------------------------------
(* Properties of retry and dead-letter *)

\* the ids of the jobs an invocation holds in its batch
BatchIds(b) == {b[i].id : i \in 1..Len(b)}

\* C12: a job that has failed MaxAttempts times is failed for good: its status
\* is failed and stays failed in every step, and no drain that selects
\* afterwards gets it in its batch.
DeadLetterIsPermanent ==
    [][\A j \in JobIds :
         failures[j] >= MaxAttempts
            => /\ jobs[j].status = "failed"
               /\ jobs'[j].status = "failed"
               /\ \A w \in DOMAIN workers :
                     workers[w].pc = "idle" => j \notin BatchIds(workers'[w].batch)]_vars

\* a failed job that has attempts left
Retriable(j) == jobs[j].status = "failed" /\ failures[j] < MaxAttempts

\* C13: a failed job below the maximum is retried, and no job is processed
\* more than MaxAttempts times: while a job is failed with attempts left the
\* drains are not at rest (some step of theirs still changes the state), and
\* no job is marked processing more than MaxAttempts times.
FailedJobIsRetried ==
    \A j \in JobIds :
        /\ Retriable(j) => ENABLED <<NextPool>>_vars
        /\ claimed[j] <= MaxAttempts

\* the jobs of the record of job j that are waiting or at work
OpenJobsLike(j) ==
    {k \in JobIds : /\ jobs[k].table_name = jobs[j].table_name
                    /\ jobs[k].record_id = jobs[j].record_id
                    /\ jobs[k].status \in {"pending", "processing"}}

\* C14: enqueue is idempotent: no record reference has more than one job that
\* is pending or processing; a content update of a record whose job is still
\* open adds no second job row.
OneOpenJobPerRecord ==
    \A j \in JobIds : Cardinality(OpenJobsLike(j)) <= 1

----------------------------------------------------------------------------
(* Properties of the fusion *)

\* the fused score of a row that is first in both branches
BothFirstScore == Reciprocal(1, MaxPosts) + Reciprocal(1, MaxPosts)

FirstInBoth(row) == row.semantic_rank = 1 /\ row.fulltext_rank = 1

FirstInOne(row) == (row.semantic_rank = 1) # (row.fulltext_rank = 1)

\* C15: a row that is number 1 in the vector branch and in the keyword branch
\* has a fused score strictly above that of any row that is number 1 in one
\* branch only (absent from the other branch or further down in it).
BothFirstBeatsOneFirst ==
    \A i \in 1..Len(result) :
        /\ FirstInBoth(result[i]) => result[i].rank = BothFirstScore
        /\ FirstInOne(result[i]) => result[i].rank < BothFirstScore

\* a search returned a row that is first in the vector branch and has no row
\* in the keyword branch
FirstInVectorBranchOnly ==
    \E i \in 1..Len(result) :
        result[i].semantic_rank = 1 /\ result[i].fulltext_rank = 0

----------------------------------------------------------------------------
(* Properties of the result order *)

\* the results are in the order of the fused score, rows of equal score in
\* the order of their ids
TiesById(rows) ==
    \A i \in 1..(Len(rows) - 1) :
        \/ rows[i].rank > rows[i + 1].rank
        \/ rows[i].rank = rows[i + 1].rank /\ rows[i].id < rows[i + 1].id

\* C16: over one and the same store, search_experience with the same inputs
\* has one possible result only, and in it rows of equal fused score come in
\* the order of their ids.
SearchOrderDeterministic ==
    \A qt \in QueryTexts, qv \in QueryVectors, th \in Thresholds,
       n \in MatchCounts, p \in EntityFilters :
        LET results == SearchExperience(qt, qv, th, n, p)
        IN /\ Cardinality(results) <= 1
           /\ \A rows \in results : TiesById(rows)

----------------------------------------------------------------------------
(* Properties of the review gate *)

\* entry e after the step is the entry it was, but for its vector and its
\* review flag
SameEntry(e) ==
    /\ e <= Len(experience')
    /\ [experience'[e] EXCEPT !.embedding = NoVec, !.is_validated = FALSE]
         = [experience[e] EXCEPT !.embedding = NoVec, !.is_validated = FALSE]

\* C17: every step of the form handler, the Teams webhook, the drain, the
\* review and the search keeps each entry (none is deleted or replaced),
\* creates entries with is_validated false only, changes is_validated of an
\* entry only as the reviewer's approval of that entry, and returns from a
\* search only entries that are approved.
ReviewGateFrame ==
    [][/\ \A e \in 1..Len(experience) :
             /\ SameEntry(e)
             /\ experience'[e].is_validated # experience[e].is_validated
                   => ReviewApprove(e)
       /\ \A e \in (Len(experience) + 1)..Len(experience') :
             ~experience'[e].is_validated
       /\ \A i \in 1..Len(result') :
             experience'[result'[i].id].is_validated]_vars

\* an entry derived from a correction has been re-embedded by the drain and
\* is still waiting for its review
ReembeddedStillUnreviewed ==
    \E e \in 1..Len(experience), j \in 1..Len(jobs) :
        /\ jobs[j].table_name = "experience"
        /\ jobs[j].record_id = e
        /\ jobs[j].status = "completed"
        /\ experience[e].source_type = "validation_response"
        /\ ~experience[e].is_validated

----------------------------------------------------------------------------
(* Properties of the Teams webhook's signature check *)

\* C18: a Teams webhook request whose signature is not valid is answered with
\* 401 and changes no validation request and creates no experience entry.
BadSignatureChangesNothing ==
    [][\A vid \in VIds \cup {UnknownId}, a \in ApprovalInputs,
          c \in CorrectionInputs :
            TeamsWebhook(FALSE, vid, a, c)
               => UNCHANGED <<validations, experience>>]_vars

----------------------------------------------------------------------------
(* Properties of the entries a response creates *)

\* C19: a step that adds an experience entry is the form handler's insert for
\* a response whose approval_status is 'updated' and whose corrections are not
\* blank; responses 'approved' and 'rejected' add no entry, whatever their
\* corrections.
OnlyUpdatedCreatesEntry ==
    [][Len(experience') > Len(experience)
          => \E h \in Handlers :
                /\ handlers[h].pc = "create"
                /\ handlers'[h].pc = "link"
                /\ handlers[h].approval_status = "updated"
                /\ HasCorrections(handlers[h].corrections)]_vars

----------------------------------------------------------------------------
(* Properties of the job lifecycle *)

JobTransitions ==
    { <<"pending", "processing">>, <<"processing", "completed">>,
      <<"processing", "failed">> }

\* C20: every change of a job's status, also under concurrent drains, is one
\* of pending -> processing, processing -> completed, processing -> failed:
\* no completed or failed job goes back to processing, and no job is marked
\* completed or failed from another status than processing.
JobStatusFollowsLifecycle ==
    [][\A j \in JobIds :
         jobs'[j].status # jobs[j].status
            => <<jobs[j].status, jobs'[j].status>> \in JobTransitions]_vars

----------------------------------------------------------------------------
(* Properties of recovery *)

\* C21: no job stays in processing for ever: while a job is processing, the
\* drains are not at rest (the invocation at work on it goes on, or, when that
\* one was cut short, a later drain can reclaim the job).
ProcessingJobCanMove ==
    \A j \in JobIds :
        jobs[j].status = "processing" => ENABLED <<NextCrash>>_vars

----------------------------------------------------------------------------
(* Properties of repeated execution *)

----------------------------------------------------------------------------
(* Order of processing *)

\* C23: a drain takes pending jobs in priority-then-FIFO order: in the batch
\* an invocation holds, a job of better priority comes first, and of two jobs
\* of equal priority the one enqueued earlier (the smaller id) comes first.
BatchInPriorityThenFifoOrder ==
    \A w \in DOMAIN workers :
        \A a, b \in 1..Len(workers[w].batch) :
            LET ja == workers[w].batch[a].id
                jb == workers[w].batch[b].id
            IN a < b =>
                 \/ jobs[ja].priority < jobs[jb].priority
                 \/ jobs[ja].priority = jobs[jb].priority /\ ja < jb

----------------------------------------------------------------------------
(* Failure of a job *)

\* C24: on a failure while processing a job the drain marks the job failed,
\* stores the error message on it and increments its retry_count by one.
FailureRecordedAndCounted ==
    [][\A w \in DOMAIN workers :
         MarkFailed(w) =>
            LET id == CurrentJob(w).id
            IN /\ jobs'[id].status = "failed"
               /\ jobs'[id].error_message = workers[w].error
               /\ jobs'[id].error_message # ""
               /\ jobs'[id].retry_count = jobs[id].retry_count + 1]_vars

\* C25: a failure in one job does not abort the drain: after the failure the
\* invocation goes on with the rest of its batch, it answers only after the
\* last job of the batch, and its response counts every job of the batch as
\* processed or failed.
FailureDoesNotAbortDrain ==
    [][\A w \in DOMAIN workers :
         /\ MarkFailed(w) /\ Len(workers[w].batch) > 1
               => /\ workers'[w].pc = "mark"
                  /\ workers'[w].batch = Tail(workers[w].batch)
                  /\ workers'[w].failed = workers[w].failed + 1
         /\ (MarkFailed(w) \/ MarkCompleted(w)) /\ workers'[w].pc = "idle"
               => LET r == DrainResponse(w, IF workers[w].pc = "fail"
                                            THEN "failed" ELSE "processed")
                  IN /\ Len(workers[w].batch) = 1
                     /\ r.processed + r.failed = r.total
                     /\ r.total >= 1]_vars

\* an invocation whose first job failed is completing its second job
SecondJobAfterFailure ==
    \E w \in DOMAIN workers :
        /\ workers[w].total = 2
        /\ workers[w].failed = 1
        /\ workers[w].pc = "complete"
        /\ Len(workers[w].batch) = 1

----------------------------------------------------------------------------
(* The search against the reference fusion *)

\* the reference score: the sum over the branches that have the record of
\* 1 / (60 + rank), in units of 1 / ScoreUnit(MaxPosts)
RefScore(sr, fr) ==
    (IF sr = 0 THEN 0 ELSE ScoreUnit(MaxPosts) \div (RRF_K + sr))
       + (IF fr = 0 THEN 0 ELSE ScoreUnit(MaxPosts) \div (RRF_K + fr))

\* rows is a reference result for the hits sh and fh of the two branches:
\* under some numbering of each branch every row carries the reference score,
\* the rows are distinct candidates in descending order of score, they are as
\* many as the limit allows, and no candidate left out beats a row
IsReferenceResult(rows, sh, fh, qt, qv, n) ==
    \E so \in SemanticRankings(sh, qv), fo \in FulltextRankings(fh, qt) :
        LET score(e) == RefScore(RankIn(so, e), RankIn(fo, e))
            ids == {rows[i].id : i \in 1..Len(rows)}
        IN /\ Len(rows) = Min(Cardinality(sh \cup fh), n)
           /\ \A i \in 1..Len(rows) :
                 /\ rows[i].id \in sh \cup fh
                 /\ rows[i].rank = score(rows[i].id)
           /\ \A i, j \in 1..Len(rows) :
                 i < j => rows[i].id # rows[j].id /\ rows[i].rank >= rows[j].rank
           /\ \A e \in (sh \cup fh) \ ids :
                 \A i \in 1..Len(rows) : rows[i].rank >= score(e)

\* C26: search returns the reference RRF result: each returned record's fused
\* score is the sum over the branches it appears in of 1 / (60 + rank), and
\* the list is the candidates by descending score cut to the limit.
SearchIsReferenceFusion ==
    \A qt \in QueryTexts, qv \in QueryVectors, th \in Thresholds,
       n \in MatchCounts, p \in EntityFilters :
        \A rows \in SearchExperience(qt, qv, th, n, p) :
            IsReferenceResult(rows, SemanticHits(qv, th, p), FulltextHits(qt, p),
                              qt, qv, n)

\* a search with limit 1 over two candidates returned the one row, which is
\* in both branches
TwoCandidatesCutToOne ==
    \E qt \in QueryTexts, qv \in QueryVectors, th \in Thresholds,
       p \in EntityFilters :
        /\ result \in SearchExperience(qt, qv, th, 1, p)
        /\ Cardinality(SemanticHits(qv, th, p) \cup FulltextHits(qt, p)) = 2
        /\ Len(result) = 1
        /\ result[1].semantic_rank > 0
        /\ result[1].fulltext_rank > 0

\* the ids of the rows of a result
ResultIds(rows) == {rows[i].id : i \in 1..Len(rows)}

\* C27: the candidates of a search are the union of the two branches: a
\* search always has a result, under a limit that cuts nothing the result
\* holds every record of either branch, and with both branches empty the
\* result is the empty list.
CandidatesAreUnionOfBranches ==
    \A qt \in QueryTexts, qv \in QueryVectors, th \in Thresholds,
       n \in MatchCounts, p \in EntityFilters :
        LET results == SearchExperience(qt, qv, th, n, p)
            sh == SemanticHits(qv, th, p)
            fh == FulltextHits(qt, p)
        IN /\ results # {}
           /\ \A rows \in results :
                 /\ ResultIds(rows) \subseteq sh \cup fh
                 /\ n >= Cardinality(sh \cup fh) => ResultIds(rows) = sh \cup fh
           /\ sh \cup fh = {} => results = {<<>>}

\* a search returned a row that the keyword branch alone has
KeywordBranchOnlyReturned ==
    \E i \in 1..Len(result) :
        result[i].semantic_rank = 0 /\ result[i].fulltext_rank > 0

----------------------------------------------------------------------------
(* Keyword tags: correction texts with many words *)

Alphabet == <<"a", "b", "c", "d", "e", "f", "g", "h", "i", "j", "k", "l">>

\* the k-th long word: five characters, the first in upper case
LongWord(k) == <<"R", "a", "t", "e", Alphabet[k]>>

\* the long words from the a-th to the b-th, one blank between them
LongWords(a, b) == JoinWords([k \in 1..(b - a + 1) |-> LongWord(a + k - 1)])

\* ten long words: as many as the cap
TxtTen == LongWords(1, 10)

\* twelve long words with a short word among them, blanks at both ends and
\* a double blank inside
TxtTwelve ==
    <<" ">> \o LongWords(1, 5) \o <<" ", " ">> \o TxtName \o <<" ">>
            \o LongWords(6, 12) \o <<" ">>

KeywordInputs == {TxtRate, TxtHours, TxtTen, TxtTwelve}

\* 'updated' responses by the form with the texts above, two handlers
NextKeywords ==
    \/ \E h \in Handlers, v \in VIds, c \in KeywordInputs :
          FormPost(h, Token(v), "updated", c)
    \/ \E h \in Handlers : FormUpdate(h)
    \/ \E h \in Handlers, ok \in BOOLEAN : FormCreateExperience(h, ok)
    \/ \E h \in Handlers : FormLink(h)

SpecKeywords == InitRecord /\ [][NextKeywords]_vars

UpperCase == {"H", "W", "R"}

\* the reference: the maximal runs of non-whitespace of the lower-cased text
\* that are longer than 4 characters, in the order of the text, the first 10
RefKeywords(c) ==
    LET lower == ToLowerCase(c)
        starts == {i \in 1..Len(lower) :
                     /\ lower[i] \notin Whitespace
                     /\ i = 1 \/ lower[i - 1] \in Whitespace}
        endOf(i) == CHOOSE j \in i..Len(lower) :
                       /\ \A k \in i..j : lower[k] \notin Whitespace
                       /\ j = Len(lower) \/ lower[j + 1] \in Whitespace
        long == {i \in starts : endOf(i) - i + 1 > 4}
        nth(k) == CHOOSE i \in long : Cardinality({x \in long : x < i}) = k - 1
    IN [k \in 1..Min(Cardinality(long), 10) |-> SubSeq(lower, nth(k), endOf(nth(k)))]

\* C29: the keywords of a derived entry are the corrections text in lower
\* case, split on whitespace, the tokens longer than 4 characters, in their
\* order, the first 10: at most 10 keywords, each longer than 4 characters
\* and in lower case.
KeywordsAreTheReferenceTags ==
    \A e \in 1..Len(experience) :
        /\ \E c \in KeywordInputs :
              /\ experience[e].description = Description(c)
              /\ experience[e].keywords = RefKeywords(c)
        /\ Len(experience[e].keywords) <= 10
        /\ \A k \in 1..Len(experience[e].keywords) :
              /\ Len(experience[e].keywords[k]) > 4
              /\ \A i \in 1..Len(experience[e].keywords[k]) :
                    experience[e].keywords[k][i] \notin UpperCase

\* an entry derived from the text of twelve long words has the first ten
CappedAtTenKeywords ==
    \E e \in 1..Len(experience) :
        /\ experience[e].description = Description(TxtTwelve)
        /\ Len(experience[e].keywords) = KeywordCap
        /\ experience[e].keywords[KeywordCap] = ToLowerCase(LongWord(10))

----------------------------------------------------------------------------
(* Responses that name no request *)

\* no request has the token as its message_id
TokenUnknown(token) == \A v \in VIds : validations[v].message_id # token

\* C30: a response that names an unknown request is answered as not found
\* and changes nothing: the form handler answers 400 without a token and 404
\* for a token that matches no request, the Teams webhook answers 404 for an
\* unknown validation_id, and in each case no request is modified, no entry
\* is created and the handler runs no further statement.
UnknownRequestChangesNothing ==
    [][/\ \A h \in Handlers, t \in TokenInputs, a \in ApprovalInputs,
             c \in CorrectionInputs :
             FormPost(h, t, a, c) /\ (t = NoToken \/ TokenUnknown(t))
                => /\ FormPostReject(t) = (IF t = NoToken THEN 400 ELSE 404)
                   /\ validations' = validations
                   /\ experience' = experience
                   /\ handlers'[h] = IdleHandler
       /\ \A a \in ApprovalInputs, c \in CorrectionInputs, ok \in BOOLEAN :
             TeamsWebhook(ok, UnknownId, a, c)
                => /\ TeamsWebhookReject(ok, UnknownId) = 404
                   /\ validations' = validations
                   /\ experience' = experience
                   /\ handlers' = handlers]_vars

\* every response so far named no request: all responses are in, no handler
\* is at work, and no request and no entry shows a trace
UnknownResponsesLeftNoTrace ==
    /\ posts = MaxPosts
    /\ \A h \in Handlers : handlers[h] = IdleHandler
    /\ \A v \in VIds : ~validations[v].responded
    /\ experience = <<>>

----------------------------------------------------------------------------
(* The reviewer backlog *)

\* created_at TIMESTAMPTZ DEFAULT NOW(): entries are stored in the order of
\* their creation, so the position of an entry stands for its timestamp
CreatedAt(e) == e

\* the view in the order of creation, oldest first
PendingReviewsOldestFirst ==
    CHOOSE o \in Orderings({e \in 1..Len(experience) :
                              experience[e].is_validated = FALSE}) :
        \A i \in 1..(Len(o) - 1) : CreatedAt(o[i]) <= CreatedAt(o[i + 1])

\* CREATE VIEW pending_reviews: WHERE e.is_validated = FALSE
\* ORDER BY e.created_at DESC
PendingReviews ==
    CHOOSE o \in Orderings({e \in 1..Len(experience) :
                              experience[e].is_validated = FALSE}) :
        \A i \in 1..(Len(o) - 1) : CreatedAt(o[i]) >= CreatedAt(o[i + 1])

\* the view as it reads after the step
PendingReviewsAfter == PendingReviews'

\* C31: the backlog holds exactly the entries that are not reviewed, the
\* newest first: a new entry comes in at its head, and an entry leaves it
\* exactly in the step in which a reviewer sets is_validated, after which the
\* search filter passes it.
BacklogIsTheUnreviewedNewestFirst ==
    [][/\ SeqToSet(PendingReviews)
            = {e \in 1..Len(experience) : ~experience[e].is_validated}
       /\ \A i, j \in 1..Len(PendingReviews) :
             i < j => PendingReviews[i] > PendingReviews[j]
       /\ Len(experience') > Len(experience)
             => /\ PendingReviewsAfter # <<>>
                /\ Head(PendingReviewsAfter) = Len(experience')
       /\ \A e \in SeqToSet(PendingReviews) :
             e \notin SeqToSet(PendingReviewsAfter)
                <=> /\ ReviewApprove(e)
                    /\ Searchable(experience'[e], NoFilter)]_vars

\* the older entry was reviewed and has left the backlog, the newer one waits
ReviewedLeftBacklog ==
    /\ Len(experience) = 2
    /\ experience[1].is_validated
    /\ PendingReviews = <<2>>

----------------------------------------------------------------------------
(* What the response handlers write *)

\* row after the step is row v but for the fields of the raw response
OnlyResponseFieldsChange(v) ==
    validations'[v] = [validations[v] EXCEPT
                          !.status = validations'[v].status,
                          !.responded = validations'[v].responded,
                          !.corrections_provided =
                              validations'[v].corrections_provided]

\* C32: the edge functions only store the raw response: a step of the form
\* handler or of the Teams webhook changes nothing but the response fields
\* of the addressed request and adds no experience entry.
HandlersStoreRawResponseOnly ==
    [][/\ \A h \in Handlers :
             \/ FormUpdate(h)
             \/ \E ok \in BOOLEAN : FormCreateExperience(h, ok)
             \/ FormLink(h)
             => /\ experience' = experience
                /\ OnlyResponseFieldsChange(handlers[h].vid)
                /\ \A v \in VIds \ {handlers[h].vid} :
                      validations'[v] = validations[v]
       /\ \A v \in VIds, a \in ApprovalInputs, c \in CorrectionInputs :
             TeamsWebhook(TRUE, v, a, c)
             => /\ experience' = experience
                /\ OnlyResponseFieldsChange(v)
                /\ \A u \in VIds \ {v} : validations'[u] = validations[u]]_vars

\* C33: the Teams webhook stores 'approved' for a submitted 'approved',
\* 'rejected' for 'rejected' and 'updated' for every other value, so after a
\* webhook response the request is approved, rejected or updated.
WebhookStatusIsOneOfThree ==
    [][\A v \in VIds, a \in ApprovalInputs, c \in CorrectionInputs :
         TeamsWebhook(TRUE, v, a, c)
            => /\ validations'[v].status
                    = (CASE a = "approved" -> "approved"
                         [] a = "rejected" -> "rejected"
                         [] OTHER -> "updated")
               /\ validations'[v].status \in {"approved", "rejected", "updated"}
               /\ validations'[v].responded]_vars

\* a request that was never dispatched, so that no form can address it, has
\* a response stored as 'updated'
WebhookStoredUpdated ==
    \E v \in VIds :
        /\ validations[v].message_id = NoToken
        /\ validations[v].responded
        /\ validations[v].status = "updated"

\* the values a response may set as status
ResponseValues == {"approved", "rejected", "updated"}

\* C34: a response through the form sets the status to approved, rejected or
\* updated only: with one of these three submitted the request takes it, and
\* with any other value the request stays as it is and the handler ends
\* without creating an entry.
FormSetsResponseStatusOnly ==
    [][\A h \in Handlers :
         FormUpdate(h) =>
            LET v == handlers[h].vid
            IN IF handlers[h].approval_status \in ResponseValues
               THEN validations'[v].status = handlers[h].approval_status
               ELSE /\ validations'[v] = validations[v]
                    /\ handlers'[h] = IdleHandler]_vars

----------------------------------------------------------------------------
(* The request and the entry it is linked to *)

\* C35: the stored response and the linked entry stay consistent: whenever
\* experience_id is set, the description of the linked entry is 'Validation
\* correction: ' followed by the request's corrections_provided.
LinkedEntryMatchesCorrections ==
    \A v \in VIds :
        validations[v].experience_id # NoExperience
           => /\ validations[v].experience_id \in 1..Len(experience)
              /\ experience[validations[v].experience_id].description
                    = Description(validations[v].corrections_provided)

\* C36: a request has experience_created exactly when its experience_id is
\* set, and then experience_id names an existing entry whose source_type is
\* 'validation_response', whose source_id is the request and whose
\* entity_type and entity_id are the request's.
LinkNamesTheDerivedEntry ==
    \A v \in VIds :
        /\ validations[v].experience_created
              <=> validations[v].experience_id # NoExperience
        /\ validations[v].experience_id # NoExperience
              => /\ validations[v].experience_id \in 1..Len(experience)
                 /\ LET entry == experience[validations[v].experience_id]
                    IN /\ entry.source_type = "validation_response"
                       /\ entry.source_id = v
                       /\ entry.entity_type = validations[v].entity_type
                       /\ entry.entity_id = validations[v].entity_id

\* a request was linked anew: it names the second entry derived from it
LinkedToSecondEntry ==
    \E v \in VIds :
        /\ validations[v].experience_created
        /\ validations[v].experience_id = 2
        /\ experience[1].source_id = v

----------------------------------------------------------------------------
(* The drain when the write of the vector is refused *)

\* "Update record with embedding" when the statement comes back with an
\* error or matches no row: the client returns the error in its result, the
\* drain does not read the result and goes on
WriteEmbeddingError(w) ==
    /\ workers[w].pc = "write"
    /\ workers' = [workers EXCEPT ![w].pc = "complete"]
    /\ UNCHANGED <<records, experience, jobs, claimed, failures, validationVars>>

\* one invocation at a time, content updates between its statements
NextWriteError ==
    \/ \E r \in RecIds, t \in ContentInputs : UpdateContent(r, t)
    \/ DrainSelect("w1")
    \/ MarkProcessing("w1")
    \/ \E ok \in BOOLEAN : ReadAndEmbed("w1", ok)
    \/ WriteEmbedding("w1")
    \/ WriteEmbeddingError("w1")
    \/ MarkCompleted("w1")
    \/ MarkFailed("w1")

SpecWriteError == InitQueue /\ [][NextWriteError]_vars

\* C37: a job is marked completed only when the vector computed for it was
\* written to its record: at the step that marks the job completed the
\* record holds the vector the invocation computed.
CompletedMeansVectorWritten ==
    [][MarkCompleted("w1")
          => StoredEmbedding(CurrentJob("w1").table_name,
                             CurrentJob("w1").record_id)
                = workers["w1"].embedding]_vars

----------------------------------------------------------------------------
(* The count of failed attempts *)

\* C38: the retry_count of a job is the number of attempts on it that
\* ended in failure, also when two invocations fail on it at the same time.
RetryCountIsNumberOfFailures ==
    \A j \in JobIds : jobs[j].retry_count = failures[j]

----------------------------------------------------------------------------
(* A failed attempt and the record *)

\* C39: a failed attempt leaves the record as it was: the statements of an
\* attempt that ends in failure (mark processing, read and embed, mark
\* failed) change no record and no entry, the failure is reached from the
\* read only and so never after the write, and marking the job failed
\* changes the row of that job alone.
FailedAttemptLeavesRecord ==
    [][\A w \in DOMAIN workers :
         /\ (MarkProcessing(w) \/ MarkFailed(w)
               \/ \E ok \in BOOLEAN : ReadAndEmbed(w, ok))
               => records' = records /\ experience' = experience
         /\ workers'[w].pc = "fail" /\ workers[w].pc # "fail"
               => workers[w].pc = "read"
         /\ MarkFailed(w)
               => \A j \in JobIds \ {CurrentJob(w).id} : jobs'[j] = jobs[j]]_vars

\* the last job of a record has failed and the record still holds the vector
\* an earlier job wrote
FailedJobVectorKept ==
    \E r \in RecIds :
        /\ Cardinality(JobsOf(r)) >= 2
        /\ jobs[LastJobOf(r)].status = "failed"
        /\ records[r].embedding # NoVec
        /\ \A w \in DOMAIN workers : workers[w].pc = "idle"

====
